---- MODULE Spec2Model ----
(***************************************************************************)
(* Forensic churn & coupling analysis (scripts/architect/generate_churn.py) *)
(* as a state machine: the git log text is parsed into commit records,      *)
(* churn and co-change counters are accumulated, and the report's four      *)
(* collections are derived from them.                                       *)
(*                                                                          *)
(* A string is a sequence of atoms (substrings none of which is a prefix of *)
(* another), so that startswith, endswith, strip, slicing and comparison    *)
(* are computed, not assumed.  A log text is the sequence of its lines.     *)
(***************************************************************************)
EXTENDS Integers, Sequences, FiniteSets, TLC

VARIABLES
    git,              \* how the git subprocess of run_git ends
    log,              \* run_git's stdout, as a sequence of lines
    min_cochanges,    \* calculate_coupling's parameter
    pc,               \* position in main()
    commits,          \* get_commits_last_12_months' result
    churn,            \* calculate_churn's result: insertion-ordered dict
    idx,              \* calculate_coupling: commits consumed by the loop
    cochange_count,   \* calculate_coupling: insertion-ordered dict of pairs
    coupling,         \* calculate_coupling's result
    report,           \* generate_markdown's collections
    run,              \* 1 for the first run of the pipeline, 2 for the re-run
    prev_report,      \* the first run's report, kept for comparison
    written           \* main() has written churn_matrix.md in this run

vars == <<git, log, min_cochanges, pc, commits, churn, idx, cochange_count,
          coupling, report, run, prev_report, written>>

----------------------------------------------------------------------------
(* Bounds of the model *)

MaxLines == 6
MaxMinCochanges == 2
MaxBulkFiles == 11
MaxPairReps == 11
MaxSoloReps == 13
MaxNoisyLines == 4
MaxClusterFiles == 13
MaxClusterSpan == 3
MaxPaddedLines == 4
MaxTierPairs == 16
MaxHubPairs == 9
MaxHubSolo == 12
MaxTierReps == 51

----------------------------------------------------------------------------
(* Strings *)

Space == " "
Marker == "COMMIT:"

\* Code-point order of the atoms' first differing characters:
\* ' ' < '.' < 'C' < 'a' < 'b' < 'c' < 'h', and ".md" < ".py" < ".rs" < ".toml" < ".ts" < ".txt"
AtomRank(a) ==
    CASE a = " "       -> 0
      [] a = ".md"     -> 1
      [] a = ".py"     -> 2
      [] a = ".rs"     -> 3
      [] a = ".toml"   -> 4
      [] a = ".ts"     -> 5
      [] a = ".txt"    -> 6
      [] a = "COMMIT:" -> 7
      [] a = "a"       -> 8
      [] a = "b"       -> 9
      [] a = "c"       -> 10
      [] a = "h"       -> 11

\* Python's str < str: lexicographic, a proper prefix is smaller
RECURSIVE StrLess(_, _)
StrLess(s, t) ==
    IF t = <<>> THEN FALSE
    ELSE IF s = <<>> THEN TRUE
    ELSE IF Head(s) = Head(t) THEN StrLess(Tail(s), Tail(t))
    ELSE AtomRank(Head(s)) < AtomRank(Head(t))

StrLeq(s, t) == s = t \/ StrLess(s, t)

RECURSIVE LStrip(_)
LStrip(s) == IF s # <<>> /\ Head(s) = Space THEN LStrip(Tail(s)) ELSE s

RECURSIVE RStrip(_)
RStrip(s) ==
    IF s # <<>> /\ s[Len(s)] = Space THEN RStrip(SubSeq(s, 1, Len(s) - 1)) ELSE s

\* str.strip()
Strip(s) == RStrip(LStrip(s))

\* line.startswith("COMMIT:")
StartsWithMarker(line) == line # <<>> /\ Head(line) = Marker

Extensions == {".rs", ".ts", ".py", ".md", ".toml"}

\* the same test with one more suffix in the list
EndsWithListedOrTxt(line) == line # <<>> /\ line[Len(line)] \in Extensions \cup {".txt"}

\* any(line.endswith(ext) for ext in [...])
EndsWithExtension(line) == line # <<>> /\ line[Len(line)] \in Extensions

\* log_output.strip().split("\n"): the text is trimmed as a whole, so blank
\* lines at either end disappear, the first line loses its leading and the
\* last line its trailing whitespace; the empty text splits into [""].
RECURSIVE DropBlankHead(_)
DropBlankHead(ls) ==
    IF ls # <<>> /\ Strip(Head(ls)) = <<>> THEN DropBlankHead(Tail(ls)) ELSE ls

RECURSIVE DropBlankTail(_)
DropBlankTail(ls) ==
    IF ls # <<>> /\ Strip(ls[Len(ls)]) = <<>>
    THEN DropBlankTail(SubSeq(ls, 1, Len(ls) - 1))
    ELSE ls

StripSplit(text) ==
    LET ls == DropBlankTail(DropBlankHead(text))
        n == Len(ls)
    IN  IF n = 0 THEN << <<>> >>
        ELSE [i \in 1..n |->
                LET l1 == IF i = 1 THEN LStrip(ls[i]) ELSE ls[i]
                IN  IF i = n THEN RStrip(l1) ELSE l1]

----------------------------------------------------------------------------
(* A for loop over a list: Op applied to the accumulator and each element in *)
(* list order.  The range is halved, and the first half's result is compared *)
(* with itself so that TLC computes it before it enters the second half      *)
(* (operator arguments are evaluated lazily, and a chain of pending          *)
(* accumulators as long as the list exhausts its stack).                     *)

RECURSIVE ForRange(_, _, _, _, _)
ForRange(Op(_, _), acc, xs, lo, hi) ==
    IF lo > hi THEN acc
    ELSE IF lo = hi THEN Op(acc, xs[lo])
    ELSE LET mid == (lo + hi) \div 2
             left == ForRange(Op, acc, xs, lo, mid)
         IN  IF left = left THEN ForRange(Op, left, xs, mid + 1, hi) ELSE left

ForEach(Op(_, _), acc, xs) == ForRange(Op, acc, xs, 1, Len(xs))

----------------------------------------------------------------------------
(* get_commits_last_12_months *)

\* current_hash is None before the first marker; None and "" are both falsy
NoHash == [set |-> FALSE, val |-> <<>>]
\* "current_hash is not None" in place of the truth value
TruthyIfSet(h) == h.set

Truthy(h) == h.set /\ h.val # <<>>

ExtractInit == [current_hash |-> NoHash, current_files |-> <<>>, commits |-> <<>>]

\* the same append without the test of current_files
FlushAnyFiles(st) ==
    IF Truthy(st.current_hash)
    THEN Append(st.commits, [hash |-> st.current_hash.val, files |-> st.current_files])
    ELSE st.commits

\* if current_hash and current_files: commits.append((current_hash, current_files))
Flush(st) ==
    IF Truthy(st.current_hash) /\ st.current_files # <<>>
    THEN Append(st.commits, [hash |-> st.current_hash.val, files |-> st.current_files])
    ELSE st.commits

\* the same iteration with the extension test made on the trimmed line
ExtractLineTrimmed(st, line) ==
    IF StartsWithMarker(line)
    THEN [current_hash |-> [set |-> TRUE, val |-> Tail(line)],
          current_files |-> <<>>,
          commits |-> Flush(st)]
    ELSE IF Strip(line) # <<>> /\ EndsWithExtension(Strip(line))
    THEN [st EXCEPT !.current_files = Append(@, Strip(line))]
    ELSE st

\* the same iteration with a blank line closing the commit block
ExtractLineBlankEnds(st, line) ==
    IF StartsWithMarker(line)
    THEN [current_hash |-> [set |-> TRUE, val |-> Tail(line)],
          current_files |-> <<>>,
          commits |-> Flush(st)]
    ELSE IF Strip(line) = <<>>
    THEN [current_hash |-> NoHash, current_files |-> <<>>, commits |-> Flush(st)]
    ELSE IF EndsWithExtension(line)
    THEN [st EXCEPT !.current_files = Append(@, Strip(line))]
    ELSE st

\* one iteration of the loop over the lines
ExtractLine(st, line) ==
    IF StartsWithMarker(line)
    THEN [current_hash |-> [set |-> TRUE, val |-> Tail(line)],
          current_files |-> <<>>,
          commits |-> Flush(st)]
    ELSE IF Strip(line) # <<>> /\ EndsWithExtension(line)
    THEN [st EXCEPT !.current_files = Append(@, Strip(line))]
    ELSE st

get_commits(text) == Flush(ForEach(ExtractLine, ExtractInit, StripSplit(text)))

----------------------------------------------------------------------------
(* Ordered dictionaries and sorted() *)

\* sorted(xs, key=lambda x: -x.n) is stable and descending by count: each
\* element goes behind the elements of greater or equal count before it
InsertDesc(s, x) ==
    SelectSeq(s, LAMBDA e : e.n >= x.n) \o <<x>> \o SelectSeq(s, LAMBDA e : e.n < x.n)

\* the same sort with elements of equal count reversed (not stable)
InsertDescBefore(s, x) ==
    SelectSeq(s, LAMBDA e : e.n > x.n) \o <<x>> \o SelectSeq(s, LAMBDA e : e.n <= x.n)

SortDescUnstable(xs) == ForEach(InsertDescBefore, <<>>, xs)

SortDesc(xs) == ForEach(InsertDesc, <<>>, xs)

\* sorted(files): ascending string order
InsertStr(s, x) ==
    SelectSeq(s, LAMBDA e : StrLeq(e, x)) \o <<x>> \o SelectSeq(s, LAMBDA e : StrLess(x, e))

SortStr(xs) == ForEach(InsertStr, <<>>, xs)

----------------------------------------------------------------------------
(* calculate_churn *)

\* the same update leaving the count of a key that is already there
ChurnIncrOnce(d, f) ==
    IF \E i \in 1..Len(d) : d[i].f = f THEN d ELSE Append(d, [f |-> f, n |-> 1])

\* churn[f] += 1 on a defaultdict(int): a new key goes last
ChurnIncr(d, f) ==
    IF \E i \in 1..Len(d) : d[i].f = f
    THEN [i \in 1..Len(d) |-> IF d[i].f = f THEN [d[i] EXCEPT !.n = @ + 1] ELSE d[i]]
    ELSE Append(d, [f |-> f, n |-> 1])

\* the same loop counting only the commits that calculate_coupling pairs
ChurnFilesEligible(d, commit) ==
    IF 2 <= Len(commit.files) /\ Len(commit.files) <= 10
    THEN ForEach(ChurnIncr, d, commit.files)
    ELSE d

\* for f in files
ChurnFiles(d, commit) == ForEach(ChurnIncr, d, commit.files)

\* for _, files in commits
ChurnLoop(d, cs) == ForEach(ChurnFiles, d, cs)

SortChurnUnstable(d) == SortDescUnstable(d)

\* dict(sorted(churn.items(), key=lambda x: -x[1]))
SortChurn(d) == SortDesc(d)

calculate_churn(cs) == SortChurn(ChurnLoop(<<>>, cs))

----------------------------------------------------------------------------
(* calculate_coupling *)

MinPairFiles == 2
MaxPairFiles == 10

EligibleExclusive(files) == MinPairFiles <= Len(files) /\ Len(files) < MaxPairFiles

\* if 2 <= len(files) <= 10
Eligible(files) == MinPairFiles <= Len(files) /\ Len(files) <= MaxPairFiles

\* itertools.combinations(s, 2): index pairs i < j in lexicographic order
RECURSIVE PairsFrom(_, _)
PairsFrom(s, i) ==
    IF i >= Len(s) THEN <<>>
    ELSE [j \in 1..(Len(s) - i) |-> [f1 |-> s[i], f2 |-> s[i + j]]] \o PairsFrom(s, i + 1)

CombinationsAdjacent(s) == [i \in 1..(Len(s) - 1) |-> [f1 |-> s[i], f2 |-> s[i + 1]]]

Combinations(s) == PairsFrom(s, 1)

\* the same update leaving the count of a key that is already there
CochangeIncrOnce(d, p) ==
    IF \E i \in 1..Len(d) : d[i].f1 = p.f1 /\ d[i].f2 = p.f2
    THEN d
    ELSE Append(d, [f1 |-> p.f1, f2 |-> p.f2, n |-> 1])

\* cochange_count[(f1, f2)] += 1 on a defaultdict(int): a new key goes last
CochangeIncr(d, p) ==
    IF \E i \in 1..Len(d) : d[i].f1 = p.f1 /\ d[i].f2 = p.f2
    THEN [i \in 1..Len(d) |->
            IF d[i].f1 = p.f1 /\ d[i].f2 = p.f2 THEN [d[i] EXCEPT !.n = @ + 1] ELSE d[i]]
    ELSE Append(d, [f1 |-> p.f1, f2 |-> p.f2, n |-> 1])

\* for f1, f2 in combinations(...)
CochangePairs(d, ps) == ForEach(CochangeIncr, d, ps)

\* the same body with a counter that keeps only the key it got first
CochangeCommitFirstKey(d, files) ==
    LET d2 == IF Eligible(files) THEN CochangePairs(d, Combinations(SortStr(files))) ELSE d
    IN  IF Len(d2) > 1 THEN SubSeq(d2, 1, 1) ELSE d2

\* the body of "for _, files in commits"
CochangeCommit(d, files) ==
    IF Eligible(files) THEN CochangePairs(d, Combinations(SortStr(files))) ELSE d

SignificantStrict(count, m) == count > m

\* the same condition with equality
SignificantExact(count, m) == count = m

\* if count >= min_cochanges
Significant(count, m) == count >= m

\* the same list without the condition
FilterCoupledKeepAll(d, m) == d

\* [(f1, f2, count) for (f1, f2), count in cochange_count.items() if ...]
FilterCoupled(d, m) == SelectSeq(d, LAMBDA e : Significant(e.n, m))

SortCoupledUnstable(coupled) == SortDescUnstable(coupled)

\* return sorted(coupled, key=lambda x: -x[2])
SortCoupled(coupled) == SortDesc(coupled)

CochangeRecord(d, commit) == CochangeCommit(d, commit.files)

CochangeLoop(d, cs) == ForEach(CochangeRecord, d, cs)

calculate_coupling(cs, m) == SortCoupled(FilterCoupled(CochangeLoop(<<>>, cs), m))

----------------------------------------------------------------------------
(* generate_markdown: the four collections the text is rendered from.      *)
(* Paths of the model are shorter than 50 characters, so the "..." path    *)
(* shortening of the rendering leaves them as they are.                    *)

TopChurn == 30
TopCoupling == 20
TopClusterPairs == 30
TopClusters == 10
TopNeighbors == 5
ChurnCritical == 50
ChurnHigh == 25
ChurnMedium == 10
CouplingVeryStrong == 15
CouplingStrong == 10
CouplingModerate == 7
HighChurn == 20
HighCoupling == 8

Take(s, k) == SubSeq(s, 1, IF Len(s) < k THEN Len(s) ELSE k)

\* the same tiers with exclusive lower bounds
ChurnRiskExclusive(count) ==
    IF count > ChurnCritical THEN "Critical"
    ELSE IF count > ChurnHigh THEN "High"
    ELSE IF count > ChurnMedium THEN "Medium"
    ELSE "Low"

ChurnRisk(count) ==
    IF count >= ChurnCritical THEN "Critical"
    ELSE IF count >= ChurnHigh THEN "High"
    ELSE IF count >= ChurnMedium THEN "Medium"
    ELSE "Low"

CouplingStrength(count) ==
    IF count >= CouplingVeryStrong THEN "Very Strong"
    ELSE IF count >= CouplingStrong THEN "Strong"
    ELSE IF count >= CouplingModerate THEN "Moderate"
    ELSE "Weak"

\* for i, (file, count) in enumerate(list(churn.items())[:30], 1)
Hotspots(ch) ==
    LET top == Take(ch, TopChurn)
    IN  [i \in 1..Len(top) |->
            [rank |-> i, f |-> top[i].f, n |-> top[i].n, risk |-> ChurnRisk(top[i].n)]]

\* for i, (f1, f2, count) in enumerate(coupling[:20], 1)
CouplingRows(cp) ==
    LET top == Take(cp, TopCoupling)
    IN  [i \in 1..Len(top) |->
            [rank |-> i, f1 |-> top[i].f1, f2 |-> top[i].f2, n |-> top[i].n,
             strength |-> CouplingStrength(top[i].n)]]

\* clusters[key].add((conn, count)) on a defaultdict(set): a new key goes last
ClusterAdd(d, key, conn, count) ==
    IF \E i \in 1..Len(d) : d[i].file = key
    THEN [i \in 1..Len(d) |->
            IF d[i].file = key
            THEN [d[i] EXCEPT !.conns = @ \cup {[f |-> conn, n |-> count]}]
            ELSE d[i]]
    ELSE Append(d, [file |-> key, conns |-> {[f |-> conn, n |-> count]}])

\* clusters[f1].add((f2, count)); clusters[f2].add((f1, count))
ClusterPair(d, p) == ClusterAdd(ClusterAdd(d, p.f1, p.f2, p.n), p.f2, p.f1, p.n)

\* for f1, f2, count in coupling[:30]
ClusterLoop(d, ps) == ForEach(ClusterPair, d, ps)

\* the same loop over the whole pair list
BuildClustersAll(cp) == ClusterLoop(<<>>, cp)

\* clusters = defaultdict(set); for f1, f2, count in coupling[:30]: ...
BuildClusters(cp) == ClusterLoop(<<>>, Take(cp, TopClusterPairs))

\* the same cut without the sort
SortedClustersUnranked(cl) ==
    Take([i \in 1..Len(cl) |->
            [file |-> cl[i].file, conns |-> cl[i].conns, n |-> Cardinality(cl[i].conns)]],
         TopClusters)

\* sorted(clusters.items(), key=lambda x: -len(x[1]))[:10]
SortedClusters(cl) ==
    LET keyed == [i \in 1..Len(cl) |->
                    [file |-> cl[i].file, conns |-> cl[i].conns,
                     n |-> Cardinality(cl[i].conns)]]
    IN  Take(SortDesc(keyed), TopClusters)

\* the same lists in ascending order of count
RECURSIVE NeighborOrdersAscending(_, _)
NeighborOrdersAscending(conns, k) ==
    IF conns = {} \/ k = 0 THEN {<<>>}
    ELSE LET low == {e \in conns : \A o \in conns : o.n >= e.n}
         IN  UNION {{<<e>> \o r : r \in NeighborOrdersAscending(conns \ {e}, k - 1)} :
                        e \in low}

\* sorted(connections, key=lambda x: -x[1])[:k] where connections is a set of
\* (str, int) tuples: a set iterates in the order of its elements' hashes, and
\* str hashes are salted per process, so the stable sort may leave elements of
\* equal count in any order.  The set of all lists the expression can yield.
RECURSIVE NeighborOrders(_, _)
NeighborOrders(conns, k) ==
    IF conns = {} \/ k = 0 THEN {<<>>}
    ELSE LET top == {e \in conns : \A o \in conns : o.n <= e.n}
         IN  UNION {{<<e>> \o r : r \in NeighborOrders(conns \ {e}, k - 1)} : e \in top}

\* for file, connections in sorted_clusters: every list of clusters the loop can emit
RECURSIVE ClusterOutcomes(_)
ClusterOutcomes(sc) ==
    IF sc = <<>> THEN {<<>>}
    ELSE UNION {{<<[file |-> Head(sc).file, neighbors |-> ns]>> \o r :
                    r \in ClusterOutcomes(Tail(sc))} :
                ns \in NeighborOrders(Head(sc).conns, TopNeighbors)}

HighChurnFilesStrict(ch) == {ch[i].f : i \in {j \in 1..Len(ch) : ch[j].n > HighChurn}}

\* {f for f, c in churn.items() if c >= 20}
HighChurnFiles(ch) == {ch[i].f : i \in {j \in 1..Len(ch) : ch[j].n >= HighChurn}}

\* {f for f1, f2, c in coupling if c >= 8 for f in [f1, f2]}
HighCouplingFiles(cp) ==
    UNION {{cp[i].f1, cp[i].f2} : i \in {j \in 1..Len(cp) : cp[j].n >= HighCoupling}}

\* the union in place of the intersection
CriticalFilesEither(ch, cp) == HighChurnFiles(ch) \cup HighCouplingFiles(cp)

\* critical_files = high_churn_files & high_coupling_files
CriticalFiles(ch, cp) == HighChurnFiles(ch) \cap HighCouplingFiles(cp)

\* sorted(critical_files)
RECURSIVE SortedSet(_)
SortedSet(S) ==
    IF S = {} THEN <<>>
    ELSE LET m == CHOOSE x \in S : \A y \in S : StrLeq(x, y)
         IN  <<m>> \o SortedSet(S \ {m})

\* churn.get(f, 0)
ChurnGet(ch, f) ==
    IF \E i \in 1..Len(ch) : ch[i].f = f
    THEN ch[CHOOSE i \in 1..Len(ch) : ch[i].f = f].n
    ELSE 0

\* the same sum over the pairs that count as high coupling only
TotalCouplingHigh(cp, f) ==
    LET Add(acc, p) ==
            IF (f = p.f1 \/ f = p.f2) /\ p.n >= HighCoupling THEN acc + p.n ELSE acc
    IN  ForEach(Add, 0, cp)

\* sum(c for f1, f2, c in coupling if f in [f1, f2])
TotalCoupling(cp, f) ==
    LET Add(acc, p) == IF f = p.f1 \/ f = p.f2 THEN acc + p.n ELSE acc
    IN  ForEach(Add, 0, cp)

CriticalRows(ch, cp) ==
    LET fs == SortedSet(CriticalFiles(ch, cp))
    IN  [i \in 1..Len(fs) |->
            [f |-> fs[i], churn |-> ChurnGet(ch, fs[i]),
             coupling |-> TotalCoupling(cp, fs[i])]]

\* the "Summary Statistics" lines
Summary(ch, cp) ==
    [files |-> Len(ch), pairs |-> Len(cp),
     highest |-> IF ch # <<>> THEN ch[1].n ELSE 0,
     strongest |-> IF cp # <<>> THEN cp[1].n ELSE 0]

\* every report generate_markdown(churn, coupling) can produce
generate_markdown(ch, cp) ==
    {[hotspots |-> Hotspots(ch), pairs |-> CouplingRows(cp), clusters |-> cl,
      critical |-> CriticalRows(ch, cp), summary |-> Summary(ch, cp)] :
        cl \in ClusterOutcomes(SortedClusters(BuildClusters(cp)))}

----------------------------------------------------------------------------
(* Inputs *)

MarkerLine == <<"COMMIT:", "h">>
A == <<"a", ".py">>
B == <<"b", ".py">>
C == <<"c", ".py">>

\* a commit block of git log --name-only --pretty=format:COMMIT:%H
Block(files) == <<MarkerLine>> \o files

RECURSIVE Repeat(_, _)
Repeat(ls, k) == IF k = 0 THEN <<>> ELSE ls \o Repeat(ls, k - 1)

\* every log of at most MaxLines lines over three paths; git's output opens
\* with a marker line
SmallLogs ==
    {<<>>} \cup
    UNION {{<<MarkerLine>> \o rest : rest \in [1..n -> {MarkerLine, A, B, C}]} :
            n \in 0..(MaxLines - 1)}

\* a path git prints with a leading blank (a file so named) beside the plain path
LeadingSpaceA == <<" ", "a", ".py">>

LeadingSpaceLogs ==
    UNION {{<<MarkerLine>> \o rest : rest \in [1..n -> {A, B, LeadingSpaceA}]} : n \in 1..3}

\* C1 = {A}, C2 = {A, B}, C3 = {A, B, C}
ScenarioLog == Block(<<A>>) \o Block(<<A, B>>) \o Block(<<A, B, C>>)

NoReport == [hotspots |-> <<>>, pairs |-> <<>>, clusters |-> <<>>,
             critical |-> <<>>, summary |-> [files |-> 0, pairs |-> 0,
                                             highest |-> 0, strongest |-> 0]]

\* subprocess.run(["git"] + args, capture_output=True, text=True) without
\* check=True: "ok" is exit status 0; "failed" is a nonzero exit status (not a
\* git repository), whose message goes to the captured stderr while stdout
\* stays empty; "missing" is no git executable, for which subprocess.run
\* raises FileNotFoundError
GitFailures == {"failed", "missing"}

StartGit(outcome, text, m) ==
    /\ git = outcome
    /\ written = FALSE
    /\ log = text
    /\ min_cochanges = m
    /\ pc = "extract"
    /\ commits = <<>>
    /\ churn = <<>>
    /\ idx = 0
    /\ cochange_count = <<>>
    /\ coupling = <<>>
    /\ report = NoReport
    /\ run = 1
    /\ prev_report = NoReport

Start(text, m) == StartGit("ok", text, m)

StartFailed(m) == \E outcome \in GitFailures : StartGit(outcome, <<>>, m)

Init ==
    \E m \in 1..MaxMinCochanges :
        \/ \E text \in SmallLogs \cup LeadingSpaceLogs \cup {ScenarioLog} : Start(text, m)
        \/ StartFailed(m)

\* commits of 0..MaxBulkFiles distinct whitelisted paths, two in a row
PathSeq ==
    <<<<"a", ".md">>, <<"a", ".py">>, <<"a", ".rs">>, <<"a", ".ts">>,
      <<"b", ".md">>, <<"b", ".py">>, <<"b", ".rs">>, <<"b", ".ts">>,
      <<"c", ".md">>, <<"c", ".py">>, <<"c", ".rs">>, <<"c", ".ts">>,
      <<"h", ".md">>, <<"h", ".py">>, <<"h", ".rs">>, <<"h", ".ts">>>>

BulkLogs ==
    {Block(Take(PathSeq, n1)) \o Block(Take(PathSeq, n2)) :
        n1 \in 0..MaxBulkFiles, n2 \in 0..MaxBulkFiles}

DefaultMinCochanges == 5

InitBulk ==
    \/ \E text \in BulkLogs : Start(text, DefaultMinCochanges)
    \/ StartFailed(DefaultMinCochanges)

\* histories long enough for the risk cutoffs: r1 commits of {A, B}, r2 of {A},
\* r3 of {B, C}
RiskLogs ==
    {Repeat(Block(<<A, B>>), r1) \o Repeat(Block(<<A>>), r2) \o Repeat(Block(<<B, C>>), r3) :
        r1 \in 0..MaxPairReps, r2 \in 0..MaxSoloReps, r3 \in 0..MaxPairReps}

InitRisk ==
    \E m \in {DefaultMinCochanges, HighCoupling + 1} :
        \/ \E text \in RiskLogs : Start(text, m)
        \/ StartFailed(m)

\* lines of a log besides "COMMIT:<hash>" and plain whitelisted paths: a marker
\* without a hash, an empty line (git log separates the commit blocks by one),
\* a whitespace-only line, a path with another extension, and the path of a
\* file whose name ends in a blank
EmptyMarker == <<"COMMIT:">>
EmptyLine == <<>>
SpaceLine == <<" ">>
TxtLine == <<"a", ".txt">>
TrailingSpaceB == <<"b", ".py", " ">>

\* every log of at most MaxNoisyLines such lines, marker lines and paths
NoisyLogs ==
    UNION {[1..n -> {MarkerLine, EmptyMarker, A, TrailingSpaceB, EmptyLine, SpaceLine,
                     TxtLine}] : n \in 0..MaxNoisyLines}

InitNoisy ==
    \E m \in 1..MaxMinCochanges :
        \/ \E text \in NoisyLogs : Start(text, m)
        \/ StartFailed(m)

\* histories with many coupled files: the first n paths of PathSeq, each
\* changed together with the paths up to span places further on, in commits
\* of two files.  The pair of path i and path i + d has CommitsOfPair(i, d)
\* commits, so that the pairs of one file all differ in their count.
CommitsOfPair(i, d) == 2 * d - 1 + ((i \div d) % 2)

RECURSIVE PairBlocks(_, _, _)
PairBlocks(n, d, i) ==
    IF i + d > n THEN <<>>
    ELSE Repeat(Block(<<PathSeq[i], PathSeq[i + d]>>), CommitsOfPair(i, d))
            \o PairBlocks(n, d, i + 1)

RECURSIVE ClusterLog(_, _)
ClusterLog(n, span) ==
    IF span = 0 THEN <<>> ELSE ClusterLog(n, span - 1) \o PairBlocks(n, span, 1)

ClusterLogs == {ClusterLog(n, span) : n \in 0..MaxClusterFiles, span \in 1..MaxClusterSpan}

InitCluster ==
    \/ \E text \in ClusterLogs : Start(text, 1)
    \/ StartFailed(1)

\* histories in which B changes with A and with C: r1 commits of {A, B}, then
\* r2 times a commit of {A} and a commit of {B}, then r3 commits of {B, C}
HubLogs ==
    {Repeat(Block(<<A, B>>), r1) \o Repeat(Block(<<A>>) \o Block(<<B>>), r2)
        \o Repeat(Block(<<B, C>>), r3) :
        r1 \in 0..MaxHubPairs, r2 \in 0..MaxHubSolo, r3 \in 0..MaxHubPairs}

InitHub ==
    \/ \E text \in HubLogs : Start(text, DefaultMinCochanges)
    \/ StartFailed(DefaultMinCochanges)

\* a path line with whitespace on both sides
PaddedC == <<" ", "c", ".py", " ">>

\* every log of at most MaxPaddedLines marker lines and whitelisted paths with
\* and without whitespace before or behind them
PaddedLogs ==
    UNION {[1..n -> {MarkerLine, A, LeadingSpaceA, TrailingSpaceB, PaddedC}] :
            n \in 0..MaxPaddedLines}

InitPadded ==
    \E m \in 1..MaxMinCochanges :
        \/ \E text \in PaddedLogs : Start(text, m)
        \/ StartFailed(m)

\* histories long enough for every display tier: r1 commits of {A, B} and r2
\* of {B, C}; every counted pair is retained
TierLogs ==
    {Repeat(Block(<<A, B>>), r1) \o Repeat(Block(<<B, C>>), r2) :
        r1 \in 0..MaxTierPairs, r2 \in 0..MaxTierReps}

InitTier ==
    \/ \E text \in TierLogs : Start(text, 1)
    \/ StartFailed(1)

----------------------------------------------------------------------------
(* main *)

\* run_git: subprocess.run raises FileNotFoundError, which nothing catches:
\* the interpreter prints the traceback and exits with status 1
RunGitRaises ==
    /\ pc = "extract"
    /\ git = "missing"
    /\ pc' = "aborted"
    /\ UNCHANGED <<git, log, min_cochanges, commits, churn, idx, cochange_count,
                   coupling, report, run, prev_report, written>>

\* commits = get_commits_last_12_months(): run_git returns result.stdout
\* whatever the exit status of git
GetCommits ==
    /\ pc = "extract"
    /\ git # "missing"
    /\ commits' = get_commits(log)
    /\ pc' = "churn"
    /\ UNCHANGED <<git, log, min_cochanges, churn, idx, cochange_count, coupling,
                   report, run, prev_report, written>>

\* churn = calculate_churn(commits); calculate_coupling starts with empty counters
CalculateChurn ==
    /\ pc = "churn"
    /\ churn' = calculate_churn(commits)
    /\ idx' = 0
    /\ cochange_count' = <<>>
    /\ pc' = "coupling"
    /\ UNCHANGED <<git, log, min_cochanges, commits, coupling, report, run,
                   prev_report, written>>

\* calculate_coupling: one iteration of "for _, files in commits"
CouplingStep ==
    /\ pc = "coupling"
    /\ idx < Len(commits)
    /\ cochange_count' = CochangeCommit(cochange_count, commits[idx + 1].files)
    /\ idx' = idx + 1
    /\ UNCHANGED <<git, log, min_cochanges, pc, commits, churn, coupling, report,
                   run, prev_report, written>>

\* calculate_coupling: the filter and the sort after the loop
CouplingReturn ==
    /\ pc = "coupling"
    /\ idx = Len(commits)
    /\ coupling' = SortCoupled(FilterCoupled(cochange_count, min_cochanges))
    /\ pc' = "report"
    /\ UNCHANGED <<git, log, min_cochanges, commits, churn, idx, cochange_count,
                   report, run, prev_report, written>>

\* markdown = generate_markdown(churn, coupling); output_path.write_text(markdown);
\* main() returns and the process exits with status 0
GenerateMarkdown ==
    /\ pc = "report"
    /\ report' \in generate_markdown(churn, coupling)
    /\ written' = TRUE
    /\ pc' = "done"
    /\ UNCHANGED <<git, log, min_cochanges, commits, churn, idx, cochange_count,
                   coupling, run, prev_report>>

\* the script is run again on the same history, in a new process
Rerun ==
    /\ pc = "done"
    /\ run = 1
    /\ run' = 2
    /\ prev_report' = report
    /\ written' = FALSE
    /\ pc' = "extract"
    /\ UNCHANGED <<git, log, min_cochanges, commits, churn, idx, cochange_count,
                   coupling, report>>

Next ==
    \/ RunGitRaises
    \/ GetCommits
    \/ CalculateChurn
    \/ CouplingStep
    \/ CouplingReturn
    \/ GenerateMarkdown
    \/ Rerun

Spec == Init /\ [][Next]_vars

SpecBulk == InitBulk /\ [][Next]_vars

SpecRisk == InitRisk /\ [][Next]_vars

SpecTier == InitTier /\ [][Next]_vars

SpecNoisy == InitNoisy /\ [][Next]_vars

SpecCluster == InitCluster /\ [][Next]_vars

SpecHub == InitHub /\ [][Next]_vars

SpecPadded == InitPadded /\ [][Next]_vars

----------------------------------------------------------------------------
(* Properties *)

Range(s) == {s[i] : i \in DOMAIN s}

Min(S) == CHOOSE x \in S : \A y \in S : x <= y

\* the files of the commit records
FilesOf(cs) == UNION {Range(cs[k].files) : k \in DOMAIN cs}

\* main() holds calculate_churn's result
ChurnDone == pc \in {"coupling", "report", "done"}

\* main() holds calculate_coupling's result
CouplingDone == pc \in {"report", "done"}

\* one iteration of calculate_coupling's loop over the commits
LoopStep == pc = "coupling" /\ idx' = idx + 1

Triples(d) == {<<d[i].f1, d[i].f2, d[i].n>> : i \in DOMAIN d}

\* (f1, f2) < (g1, g2) as Python compares tuples of strings
PairLess(p, q) == StrLess(p.f1, q.f1) \/ (p.f1 = q.f1 /\ StrLess(p.f2, q.f2))

\* C1: for every file of the extracted commits, churn[f] is the number of
\* commits whose file list contains f, and no other file has an entry.
ChurnCountsCommits ==
    ChurnDone =>
        /\ {churn[i].f : i \in DOMAIN churn} = FilesOf(commits)
        /\ \A i \in DOMAIN churn :
              churn[i].n =
                Cardinality({k \in DOMAIN commits : churn[i].f \in Range(commits[k].files)})

\* C2: calculate_coupling returns exactly the pairs whose counter, after the
\* loop has consumed every commit, is >= min_cochanges, each once and with its
\* full counter value.
ThresholdExact ==
    CouplingDone =>
        /\ idx = Len(commits)
        /\ Triples(coupling) = {t \in Triples(cochange_count) : t[3] >= min_cochanges}
        /\ Cardinality(Triples(coupling)) = Len(coupling)

\* a pair whose counter equals the threshold is returned while a pair one
\* below the threshold is not
ThresholdBoundaryWitness ==
    /\ pc = "done"
    /\ min_cochanges = 2
    /\ \E i \in DOMAIN coupling : coupling[i].n = min_cochanges
    /\ \E j \in DOMAIN cochange_count :
          /\ cochange_count[j].n = min_cochanges - 1
          /\ \A i \in DOMAIN coupling :
                ~(coupling[i].f1 = cochange_count[j].f1 /\ coupling[i].f2 = cochange_count[j].f2)

\* C3: an iteration of the loop changes the pair counters if and only if the
\* commit has at least 2 and at most 10 files.
PairingBounds ==
    [][LoopStep =>
        ((cochange_count' # cochange_count) <=>
            (2 <= Len(commits[idx + 1].files) /\ Len(commits[idx + 1].files) <= 10))]_vars

\* a commit of 11 files left the counters empty and the following commit of 10
\* files added its 45 pairs
PairingBoundsWitness ==
    /\ pc = "coupling"
    /\ idx = 2
    /\ Len(commits[1].files) = 11
    /\ Len(commits[2].files) = 10
    /\ Len(cochange_count) = 45

\* C4: every returned pair has fileA < fileB, strictly.
PairsCanonical ==
    CouplingDone => \A i \in DOMAIN coupling : StrLess(coupling[i].f1, coupling[i].f2)

\* the counter of the unordered pair {x, y}
PairCount(d, x, y) ==
    LET Count(a, b) ==
            IF \E i \in DOMAIN d : d[i].f1 = a /\ d[i].f2 = b
            THEN d[CHOOSE i \in DOMAIN d : d[i].f1 = a /\ d[i].f2 = b].n
            ELSE 0
    IN  IF x = y THEN Count(x, x) ELSE Count(x, y) + Count(y, x)

Reorderings(files) ==
    {[i \in DOMAIN files |-> files[q[i]]] : q \in Permutations(DOMAIN files)}

\* C5: one commit raises the counter of every unordered pair of its files by
\* at most 1, and by the same amount whatever the order of its file list.
PairCountedOnce ==
    [][LoopStep =>
        LET files == commits[idx + 1].files
        IN  \A x \in Range(files), y \in Range(files) :
              /\ PairCount(cochange_count', x, y) - PairCount(cochange_count, x, y) <= 1
              /\ \A other \in Reorderings(files) :
                    PairCount(CochangeCommit(cochange_count, other), x, y)
                      = PairCount(cochange_count', x, y)]_vars

\* C6: the critical files are exactly the files with churn >= 20 that are
\* fileA or fileB of a returned pair with count >= 8.
CriticalIsIntersection ==
    pc = "done" =>
        {report.critical[i].f : i \in DOMAIN report.critical} =
            {f \in FilesOf(commits) :
                /\ \E j \in DOMAIN churn : churn[j].f = f /\ churn[j].n >= 20
                /\ \E i \in DOMAIN coupling :
                      coupling[i].n >= 8 /\ f \in {coupling[i].f1, coupling[i].f2}}

\* A is critical with churn exactly 20 and strongest pair exactly 8, and B,
\* with a pair of count >= 8 but churn 19, is not
CriticalBoundaryWitness ==
    /\ pc = "done"
    /\ \E i \in DOMAIN report.critical : report.critical[i].f = A
    /\ \A i \in DOMAIN report.critical : report.critical[i].f # B
    /\ \E j \in DOMAIN churn : churn[j].f = A /\ churn[j].n = 20
    /\ \E j \in DOMAIN churn : churn[j].f = B /\ churn[j].n = 19
    /\ \E i \in DOMAIN coupling : coupling[i].f1 = A /\ coupling[i].n = 8
    /\ \A i \in DOMAIN coupling : coupling[i].f1 = A => coupling[i].n <= 8
    /\ \E i \in DOMAIN coupling : coupling[i].f1 = B /\ coupling[i].n >= 8

\* C7: for the commits {A}, {A, B}, {A, B, C} churn is {A: 3, B: 2, C: 1}, the
\* pairs at threshold 1 are {(A,B): 2, (A,C): 1, (B,C): 1}, and at threshold 2
\* only (A,B): 2.
ScenarioResult ==
    (log = ScenarioLog /\ CouplingDone) =>
        /\ {<<churn[i].f, churn[i].n>> : i \in DOMAIN churn} = {<<A, 3>>, <<B, 2>>, <<C, 1>>}
        /\ Len(churn) = 3
        /\ min_cochanges = 1 =>
              /\ Triples(coupling) = {<<A, B, 2>>, <<A, C, 1>>, <<B, C, 1>>}
              /\ Len(coupling) = 3
        /\ min_cochanges = 2 =>
              /\ Triples(coupling) = {<<A, B, 2>>}
              /\ Len(coupling) = 1

ScenarioWitness ==
    /\ log = ScenarioLog
    /\ pc = "done"
    /\ min_cochanges = 2
    /\ Len(commits) = 3
    /\ Len(coupling) = 1

\* C8: the second run on the same history produces the same four collections
\* as the first, the order of equally weighted neighbors included.
RerunIdentical ==
    (run = 2 /\ pc = "done") => report = prev_report

\* the first commit with 2..10 files in which the pair was counted
PairFirstCounted(p) ==
    Min({k \in DOMAIN commits :
            /\ 2 <= Len(commits[k].files) /\ Len(commits[k].files) <= 10
            /\ \E i \in DOMAIN commits[k].files, j \in DOMAIN commits[k].files :
                  i # j /\ commits[k].files[i] = p.f1 /\ commits[k].files[j] = p.f2})

\* no commit record lists a path twice
NoDuplicatePaths ==
    \A k \in DOMAIN commits : Cardinality(Range(commits[k].files)) = Len(commits[k].files)

FirstCommit(f) == Min({k \in DOMAIN commits : f \in Range(commits[k].files)})
FirstPosition(f) ==
    Min({i \in DOMAIN commits[FirstCommit(f)].files : commits[FirstCommit(f)].files[i] = f})

SeenBefore(f, g) ==
    \/ FirstCommit(f) < FirstCommit(g)
    \/ FirstCommit(f) = FirstCommit(g) /\ FirstPosition(f) < FirstPosition(g)

\* C10: the churn table is descending by count and files of equal count are in
\* the order in which they were first seen in the commit stream.
ChurnOrderFirstSeen ==
    ChurnDone =>
        \A i \in DOMAIN churn, j \in DOMAIN churn :
            i < j =>
                \/ churn[i].n > churn[j].n
                \/ churn[i].n = churn[j].n /\ SeenBefore(churn[i].f, churn[j].f)

\* two files of equal count stay in first-seen order against the alphabet, and
\* a file seen later with a greater count has moved ahead of both
ChurnTieWitness ==
    /\ pc = "done"
    /\ Len(churn) = 3
    /\ churn[2].n = churn[3].n
    /\ churn[1].n > churn[2].n
    /\ StrLess(churn[3].f, churn[2].f)
    /\ SeenBefore(churn[2].f, churn[1].f)

\* the sum of the counts of a counter, and the number of (commit, file)
\* memberships of a commit sequence
SumCounts(d) ==
    LET Add(acc, e) == acc + e.n
    IN  ForEach(Add, 0, d)

Memberships(cs) ==
    LET Add(acc, c) == acc + Len(c.files)
    IN  ForEach(Add, 0, cs)

\* C11: the values of the churn table add up to the total length of the
\* commits' file lists, commits of 1 file and of more than 10 files included.
ChurnSumIsMemberships ==
    ChurnDone => SumCounts(churn) = Memberships(commits)

\* a commit of 1 file and a commit of 11 files are both counted in full
ChurnSumWitness ==
    /\ pc = "done"
    /\ Len(commits) = 2
    /\ Len(commits[1].files) = 1
    /\ Len(commits[2].files) = 11
    /\ SumCounts(churn) = 12

\* C12: when git cannot be started or exits with an error, the pipeline
\* aborts in the extraction step: churn and coupling are not computed and no
\* report is written.
FailureAborts ==
    git \in GitFailures => (pc \in {"extract", "aborted"} /\ ~written)

\* the extractor has returned
Extracted == pc \in {"churn", "coupling", "report", "done"}

\* the report's pair list, cluster list and critical set are empty
NoCouplingReported ==
    /\ report.pairs = <<>>
    /\ report.clusters = <<>>
    /\ report.critical = <<>>

\* C13: with zero commits the pipeline goes on to its end and the churn
\* table, pair list, cluster list and critical set are empty; with commits of
\* which no pair reaches min_cochanges the pair list, cluster list and critical
\* set are empty and the churn table holds every file of the commits.
EmptyResultNotError ==
    /\ (Extracted /\ commits = <<>>) =>
          /\ pc # "done" => ENABLED Next
          /\ churn = <<>>
          /\ coupling = <<>>
          /\ pc = "done" => (written /\ report.hotspots = <<>> /\ NoCouplingReported)
    /\ (CouplingDone /\ commits # <<>>
            /\ \A i \in DOMAIN cochange_count : cochange_count[i].n < min_cochanges) =>
          /\ pc # "done" => ENABLED Next
          /\ coupling = <<>>
          /\ {churn[i].f : i \in DOMAIN churn} = FilesOf(commits)
          /\ Len(churn) = Cardinality(FilesOf(commits))
          /\ pc = "done" =>
                /\ written
                /\ NoCouplingReported
                /\ Len(churn) <= TopChurn =>
                      [i \in DOMAIN report.hotspots |->
                          [f |-> report.hotspots[i].f, n |-> report.hotspots[i].n]] = churn

\* commits were paired but no pair reached the threshold: the report has its
\* churn rows and nothing else
NoQualifyingPairWitness ==
    /\ pc = "done"
    /\ written
    /\ cochange_count # <<>>
    /\ coupling = <<>>
    /\ Len(report.hotspots) = 3
    /\ NoCouplingReported

\* the tiers from the lowest to the highest
ChurnTierRank(t) ==
    CASE t = "Low" -> 0 [] t = "Medium" -> 1 [] t = "High" -> 2 [] t = "Critical" -> 3

CouplingTierRank(t) ==
    CASE t = "Weak" -> 0 [] t = "Moderate" -> 1 [] t = "Strong" -> 2 [] t = "Very Strong" -> 3

\* C14: every churn row has exactly the tier of its count (>= 50 critical,
\* 25..49 high, 10..24 medium, below 10 low), every pair row likewise (>= 15
\* very strong, 10..14 strong, 7..9 moderate, below 7 weak), and a row with a
\* larger count never has a lower tier.
TiersByBounds ==
    pc = "done" =>
        /\ \A i \in DOMAIN report.hotspots :
              LET n == report.hotspots[i].n
                  t == report.hotspots[i].risk
              IN  /\ t \in {"Low", "Medium", "High", "Critical"}
                  /\ t = "Critical" <=> n >= 50
                  /\ t = "High" <=> (25 <= n /\ n <= 49)
                  /\ t = "Medium" <=> (10 <= n /\ n <= 24)
                  /\ t = "Low" <=> n < 10
        /\ \A i \in DOMAIN report.pairs :
              LET n == report.pairs[i].n
                  t == report.pairs[i].strength
              IN  /\ t \in {"Weak", "Moderate", "Strong", "Very Strong"}
                  /\ t = "Very Strong" <=> n >= 15
                  /\ t = "Strong" <=> (10 <= n /\ n <= 14)
                  /\ t = "Moderate" <=> (7 <= n /\ n <= 9)
                  /\ t = "Weak" <=> n < 7
        /\ \A i \in DOMAIN report.hotspots, j \in DOMAIN report.hotspots :
              report.hotspots[i].n <= report.hotspots[j].n =>
                  ChurnTierRank(report.hotspots[i].risk) <= ChurnTierRank(report.hotspots[j].risk)
        /\ \A i \in DOMAIN report.pairs, j \in DOMAIN report.pairs :
              report.pairs[i].n <= report.pairs[j].n =>
                  CouplingTierRank(report.pairs[i].strength)
                      <= CouplingTierRank(report.pairs[j].strength)

\* counts that sit on inclusive lower bounds: churn 25 is high and 10 is
\* medium, pair count 15 is very strong and 10 is strong
TierBoundaryWitness ==
    /\ pc = "done"
    /\ \E i \in DOMAIN report.hotspots :
          report.hotspots[i].n = 25 /\ report.hotspots[i].risk = "High"
    /\ \E i \in DOMAIN report.hotspots :
          report.hotspots[i].n = 10 /\ report.hotspots[i].risk = "Medium"
    /\ \E i \in DOMAIN report.pairs :
          report.pairs[i].n = 15 /\ report.pairs[i].strength = "Very Strong"
    /\ \E i \in DOMAIN report.pairs :
          report.pairs[i].n = 10 /\ report.pairs[i].strength = "Strong"

\* the positions of the log's marker lines
MarkerLines == {p \in DOMAIN log : StartsWithMarker(log[p])}

\* the lines of the block opened by the marker at position p
BlockLines(p) ==
    {q \in DOMAIN log : q > p /\ \A r \in MarkerLines : ~(p < r /\ r <= q)}

\* a line that names a whitelisted path, whitespace around it aside
NamesWhitelisted(line) == EndsWithExtension(Strip(line))

\* C15: every emitted record has a non-empty file list, and there are at most
\* as many records as marker lines whose block has a line naming a whitelisted
\* path: a block without one produces no record.
RecordsNonEmpty ==
    Extracted =>
        /\ \A k \in DOMAIN commits : commits[k].files # <<>>
        /\ Len(commits) <= Cardinality(MarkerLines)
        /\ Len(commits) <=
              Cardinality({p \in MarkerLines :
                             \E q \in BlockLines(p) : NamesWhitelisted(log[q])})

\* of two commit blocks, the one that holds only a line with another
\* extension produces no record
EmptyBlockWitness ==
    /\ Extracted
    /\ Cardinality(MarkerLines) = 2
    /\ \E p \in MarkerLines : \E q \in BlockLines(p) : log[q] = TxtLine
    /\ Len(commits) = 1

\* C16: no emitted record lists a path more than once.
RecordsDeduplicated ==
    Extracted => NoDuplicatePaths

\* the log with line x put after its first p lines, and without its line p
InsertAt(ls, p, x) == SubSeq(ls, 1, p) \o <<x>> \o SubSeq(ls, p + 1, Len(ls))
RemoveAt(ls, p) == SubSeq(ls, 1, p - 1) \o SubSeq(ls, p + 1, Len(ls))

\* lines that are neither a marker nor a whitelisted path
IgnorableLines == {EmptyLine, SpaceLine, TxtLine}

\* the positions before the first marker line
BeforeFirstMarker == {p \in 0..Len(log) : \A r \in MarkerLines : p < r}

\* C17: a blank or whitespace-only line or a path with another extension put
\* anywhere into the log, a file line put before the first marker, or such a
\* line taken out of the log, leaves the emitted records as they are.
IgnoredLinesNeutral ==
    Extracted =>
        /\ \A p \in 0..Len(log), x \in IgnorableLines :
              get_commits(InsertAt(log, p, x)) = commits
        /\ \A p \in BeforeFirstMarker : get_commits(InsertAt(log, p, A)) = commits
        /\ \A p \in DOMAIN log :
              log[p] \in IgnorableLines => get_commits(RemoveAt(log, p)) = commits

\* the commits at the positions S, in their order
SubCommits(cs, S) ==
    [i \in 1..Cardinality(S) |->
        cs[CHOOSE k \in S : Cardinality({j \in S : j < k}) = i - 1]]

\* the count of the key (a, b) in a pair counter, 0 without the key
KeyCount(d, a, b) ==
    IF \E i \in DOMAIN d : d[i].f1 = a /\ d[i].f2 = b
    THEN d[CHOOSE i \in DOMAIN d : d[i].f1 = a /\ d[i].f2 = b].n
    ELSE 0

\* C18: for every split of the commits into two parts, the parts' churn
\* counters added per file are the churn table, and the parts' pair counters
\* added per pair and thresholded after the addition are the retained triples.
CountingAdditive ==
    CouplingDone =>
        \A S \in SUBSET DOMAIN commits :
            LET part1 == SubCommits(commits, S)
                part2 == SubCommits(commits, DOMAIN commits \ S)
                churn1 == calculate_churn(part1)
                churn2 == calculate_churn(part2)
                pairs1 == CochangeLoop(<<>>, part1)
                pairs2 == CochangeLoop(<<>>, part2)
                files == FilesOf(commits)
            IN  /\ {churn[i].f : i \in DOMAIN churn} =
                      {churn1[i].f : i \in DOMAIN churn1} \cup {churn2[i].f : i \in DOMAIN churn2}
                /\ \A f \in files :
                      ChurnGet(churn, f) = ChurnGet(churn1, f) + ChurnGet(churn2, f)
                /\ Triples(coupling) =
                      {t \in {<<a, b, KeyCount(pairs1, a, b) + KeyCount(pairs2, a, b)>> :
                                  a \in files, b \in files} :
                          t[3] >= min_cochanges}

\* a pair counted once in each of two commits is retained at threshold 2: it
\* reaches the threshold only in the sum of the two parts
MergedThresholdWitness ==
    /\ pc = "done"
    /\ min_cochanges = 2
    /\ Len(commits) = 2
    /\ coupling # <<>>
    /\ \A i \in DOMAIN coupling : coupling[i].n = 2
    /\ NoDuplicatePaths

Reverse(s) == [i \in DOMAIN s |-> s[Len(s) + 1 - i]]

\* the first element moved behind the last
Rotate(s) == IF s = <<>> THEN s ELSE Tail(s) \o <<Head(s)>>

\* the first and the last element exchanged
SwapEnds(s) ==
    [i \in DOMAIN s |-> IF i = 1 THEN s[Len(s)] ELSE IF i = Len(s) THEN s[1] ELSE s[i]]

\* other orders of the same commits: all of them for up to 4 commits, else
\* the reversal, the rotation by one and the exchange of the two ends
CommitOrders(cs) ==
    IF Len(cs) <= 4 THEN Reorderings(cs) ELSE {Reverse(cs), Rotate(cs), SwapEnds(cs)}

CountsOf(cp) == [i \in DOMAIN cp |-> cp[i].n]

\* main() is about to render the report of the first run
ReadyToReport == pc = "report" /\ run = 1

PartnersOf(f) ==
    {g \in FilesOf(commits) :
        \E i \in DOMAIN coupling :
            /\ i <= 30
            /\ \/ (coupling[i].f1 = f /\ coupling[i].f2 = g)
               \/ (coupling[i].f1 = g /\ coupling[i].f2 = f)}

Centers == {report.clusters[i].file : i \in DOMAIN report.clusters}

\* C20: at most 10 clusters are emitted, each center once, in non-increasing
\* order of the number of partners the center has in the first 30 ranked
\* pairs; no file left out has more partners than an emitted center, and
\* every emitted center has a partner.
ClustersRanked ==
    pc = "done" =>
        /\ Len(report.clusters) <= 10
        /\ Cardinality(Centers) = Len(report.clusters)
        /\ \A i \in DOMAIN report.clusters, j \in DOMAIN report.clusters :
              i < j =>
                  Cardinality(PartnersOf(report.clusters[i].file))
                      >= Cardinality(PartnersOf(report.clusters[j].file))
        /\ \A f \in FilesOf(commits) \ Centers, c \in Centers :
              Cardinality(PartnersOf(f)) <= Cardinality(PartnersOf(c))
        /\ \A c \in Centers : PartnersOf(c) # {}
        /\ Len(report.clusters) < 10 =>
              Centers = {f \in FilesOf(commits) : PartnersOf(f) # {}}

\* more than 30 pairs and more than 10 files with a partner: 10 clusters are
\* emitted, their sizes differ, and a file with a partner is left out
ClusterCutWitness ==
    /\ pc = "done"
    /\ Len(coupling) > 30
    /\ Len(report.clusters) = 10
    /\ Cardinality(PartnersOf(report.clusters[1].file))
          > Cardinality(PartnersOf(report.clusters[10].file))
    /\ \E f \in FilesOf(commits) \ Centers : PartnersOf(f) # {}

\* the partners of f in the first 30 pairs of the ranked list, each with the
\* count of the pair
WeightedPartnersOf(f) ==
    {[f |-> g, n |-> coupling[i].n] :
        <<g, i>> \in {<<h, j>> \in FilesOf(commits) \X DOMAIN coupling :
                         /\ j <= 30
                         /\ \/ (coupling[j].f1 = f /\ coupling[j].f2 = h)
                            \/ (coupling[j].f1 = h /\ coupling[j].f2 = f)}}

\* C21: inside every emitted cluster the neighbors are partners of the center,
\* each once, in non-increasing order of count and at most 5; all partners are
\* listed when there are at most 5, and otherwise no omitted partner has a
\* greater count than a listed one.
NeighborsHeaviestFirst ==
    pc = "done" =>
        \A c \in DOMAIN report.clusters :
            LET ns == report.clusters[c].neighbors
                all == WeightedPartnersOf(report.clusters[c].file)
            IN  /\ Len(ns) <= 5
                /\ Range(ns) \subseteq all
                /\ Cardinality(Range(ns)) = Len(ns)
                /\ Len(ns) = IF Cardinality(all) < 5 THEN Cardinality(all) ELSE 5
                /\ \A i \in DOMAIN ns, j \in DOMAIN ns : i < j => ns[i].n >= ns[j].n
                /\ \A o \in all \ Range(ns), l \in Range(ns) : o.n <= l.n

\* a center with 6 partners lists 5 of them, and the one left out is lighter
\* than all that are listed
NeighborCutWitness ==
    /\ pc = "done"
    /\ \E c \in DOMAIN report.clusters :
          LET ns == report.clusters[c].neighbors
              all == WeightedPartnersOf(report.clusters[c].file)
          IN  /\ Cardinality(all) = 6
              /\ Len(ns) = 5
              /\ \A o \in all \ Range(ns), l \in Range(ns) : o.n < l.n

\* the elements of a set of positions in ascending order
Ascending(S) ==
    [i \in 1..Cardinality(S) |-> CHOOSE k \in S : Cardinality({j \in S : j < k}) = i - 1]

\* the line at position q has only whitespace lines behind it, so that the
\* trimming of the whole text takes its trailing whitespace away
LastContentLine(q) == \A r \in DOMAIN log : r > q => Strip(log[r]) = <<>>

\* the line at position q passes the extension filter
Qualifies(q) ==
    /\ ~StartsWithMarker(log[q])
    /\ EndsWithExtension(IF LastContentLine(q) THEN RStrip(log[q]) ELSE log[q])

\* the qualifying file lines of the block opened by the marker at p, trimmed,
\* in log order
BlockFiles(p) ==
    LET qs == Ascending({q \in BlockLines(p) : Qualifies(q)})
    IN  [i \in DOMAIN qs |-> Strip(log[qs[i]])]

\* one record per marker line, in the order of the marker lines, without the
\* markers that have no hash or no qualifying file line
RecordsByMarker ==
    LET ms == Ascending(MarkerLines)
        all == [k \in DOMAIN ms |-> [hash |-> Tail(log[ms[k]]), files |-> BlockFiles(ms[k])]]
    IN  SelectSeq(all, LAMBDA r : r.hash # <<>> /\ r.files # <<>>)

\* C22: the emitted records are, in the order of their marker lines, the
\* marker's hash with exactly the qualifying file lines between that marker
\* and the next marker or the end of the log, in log order; a blank line
\* inside a block does not end it.
FilesFollowMarker ==
    Extracted => commits = RecordsByMarker

\* a record holds the file before and the file behind a blank line of its block
BlankInsideBlockWitness ==
    /\ Extracted
    /\ Len(commits) = 1
    /\ Len(commits[1].files) = 2
    /\ \E p \in MarkerLines, q \in DOMAIN log, r \in DOMAIN log :
          /\ p < q /\ q < r
          /\ {q, r} \subseteq BlockLines(p)
          /\ log[q] = EmptyLine
          /\ \E q0 \in BlockLines(p) : q0 < q /\ Qualifies(q0)
          /\ Qualifies(r)

\* the path ends with .rs, .ts, .py, .md or .toml
Whitelisted(path) ==
    path # <<>> /\ path[Len(path)] \in {".rs", ".ts", ".py", ".md", ".toml"}

\* C23: every path of every emitted record ends with a whitelisted suffix,
\* and so does every key of the churn table and every file of a counted or
\* returned pair.
PathsWhitelisted ==
    /\ Extracted => \A f \in FilesOf(commits) : Whitelisted(f)
    /\ ChurnDone => \A i \in DOMAIN churn : Whitelisted(churn[i].f)
    /\ \A i \in DOMAIN cochange_count :
          Whitelisted(cochange_count[i].f1) /\ Whitelisted(cochange_count[i].f2)
    /\ CouplingDone =>
          \A i \in DOMAIN coupling : Whitelisted(coupling[i].f1) /\ Whitelisted(coupling[i].f2)

\* a block holds a line with another extension between two whitelisted
\* paths, and the two paths are returned as a pair
FilteredBlockWitness ==
    /\ pc = "done"
    /\ Len(log) = 4
    /\ log[3] = TxtLine
    /\ Len(churn) = 2
    /\ Len(coupling) = 1

\* the marker lines that carry a commit identifier
HashedMarkers == {p \in MarkerLines : Tail(log[p]) # <<>>}

\* C24: a marker line without a commit identifier emits no record and its
\* block's file lines go to no record: the records are those of the markers
\* with an identifier, each with the files of its own block only, the markers
\* behind an empty one included.
EmptyHashSkipped ==
    Extracted =>
        /\ \A k \in DOMAIN commits : commits[k].hash # <<>>
        /\ LET ms == Ascending({p \in HashedMarkers : BlockFiles(p) # <<>>})
           IN  commits = [k \in DOMAIN ms |->
                             [hash |-> Tail(log[ms[k]]), files |-> BlockFiles(ms[k])]]

\* a commit with one file is followed by a marker without identifier whose
\* block has a qualifying file line: the first commit is emitted with its own
\* file and the line is discarded
EmptyHashWitness ==
    /\ Extracted
    /\ Len(log) = 4
    /\ log[1] = MarkerLine
    /\ log[2] = A
    /\ log[3] = EmptyMarker
    /\ Qualifies(4)
    /\ commits = <<[hash |-> <<"h">>, files |-> <<A>>]>>

\* the churn rows and the pair rows of the report that name f
HotspotRowsOf(f) == {i \in DOMAIN report.hotspots : report.hotspots[i].f = f}
PairRowsOf(f) ==
    {i \in DOMAIN report.pairs : f \in {report.pairs[i].f1, report.pairs[i].f2}}

\* C25: every critical file has a churn tier of at least medium and a pair of
\* tier at least moderate (and a file can be critical with no more than that).
CriticalAtLeastMedium ==
    pc = "done" =>
        \A c \in DOMAIN report.critical :
            LET f == report.critical[c].f
            IN  /\ \E i \in HotspotRowsOf(f) :
                      report.hotspots[i].risk \in {"Medium", "High", "Critical"}
                /\ \E i \in PairRowsOf(f) :
                      report.pairs[i].strength \in {"Moderate", "Strong", "Very Strong"}

\* a file is critical while its churn tier is medium (churn 20..24) and its
\* strongest pair is moderate (count 8..9)
CriticalButMediumWitness ==
    /\ pc = "done"
    /\ \E c \in DOMAIN report.critical :
          LET f == report.critical[c].f
          IN  /\ \A i \in HotspotRowsOf(f) :
                    /\ report.hotspots[i].risk = "Medium"
                    /\ report.hotspots[i].n \in 20..24
              /\ HotspotRowsOf(f) # {}
              /\ PairRowsOf(f) # {}
              /\ \A i \in PairRowsOf(f) : report.pairs[i].strength \in {"Moderate", "Weak"}
              /\ \E i \in PairRowsOf(f) :
                    report.pairs[i].strength = "Moderate" /\ report.pairs[i].n \in 8..9

\* the sum of the counts of the first k returned pairs that contain f
RECURSIVE PairTotal(_, _)
PairTotal(f, k) ==
    IF k = 0 THEN 0
    ELSE PairTotal(f, k - 1)
            + (IF f \in {coupling[k].f1, coupling[k].f2} THEN coupling[k].n ELSE 0)

\* C26: every critical row reports the file's churn, which is >= 20, and the
\* sum of the counts of all returned pairs containing the file, pairs of count
\* below 8 included, which is >= 8; the rows are in ascending order of path.
CriticalRowsExact ==
    pc = "done" =>
        /\ \A c \in DOMAIN report.critical :
              LET row == report.critical[c]
              IN  /\ \E i \in DOMAIN churn : churn[i].f = row.f /\ churn[i].n = row.churn
                  /\ row.churn >= 20
                  /\ row.coupling = PairTotal(row.f, Len(coupling))
                  /\ row.coupling >= 8
        /\ \A c \in DOMAIN report.critical, d \in DOMAIN report.critical :
              c < d => StrLess(report.critical[c].f, report.critical[d].f)

\* two critical rows, A before B, and B's total holds a returned pair of
\* count below 8
CriticalTotalWitness ==
    /\ pc = "done"
    /\ Len(report.critical) = 2
    /\ report.critical[1].f = A
    /\ report.critical[2].f = B
    /\ \E i \in DOMAIN coupling : coupling[i].f1 = B /\ coupling[i].n < 8
    /\ \E i \in DOMAIN coupling :
          /\ coupling[i].f2 = B /\ coupling[i].n >= 8
          /\ report.critical[2].coupling > coupling[i].n

\* C27: when no commit lists a path twice, both files of every returned pair
\* are keys of the churn table and the pair's count exceeds the churn of
\* neither.
CochangeBelowChurn ==
    (CouplingDone /\ NoDuplicatePaths) =>
        \A i \in DOMAIN coupling :
            /\ \E j \in DOMAIN churn : churn[j].f = coupling[i].f1 /\ coupling[i].n <= churn[j].n
            /\ \E j \in DOMAIN churn : churn[j].f = coupling[i].f2 /\ coupling[i].n <= churn[j].n

\* a pair changed together twice: its count equals the churn of one file and
\* is below the churn of the other, which also changed alone
CochangeBelowChurnWitness ==
    /\ pc = "done"
    /\ NoDuplicatePaths
    /\ \E i \in DOMAIN coupling :
          /\ coupling[i].n = 2
          /\ \E j \in DOMAIN churn : churn[j].f = coupling[i].f1 /\ churn[j].n = 3
          /\ \E j \in DOMAIN churn : churn[j].f = coupling[i].f2 /\ churn[j].n = 2

\* thresholds from below 1 to above the largest count of the small histories
Thresholds == -1..(MaxMinCochanges + 2)

\* C28: calculate_coupling on the commits with a greater threshold returns a
\* subset of the triples it returns with a smaller one, counts included, and
\* with any threshold <= 1 it returns what it returns with threshold 1; the
\* pipeline's pair list is the function's result at min_cochanges.
ThresholdMonotone ==
    CouplingDone =>
        LET results == {[m |-> m, cp |-> calculate_coupling(commits, m)] : m \in Thresholds}
        IN  /\ [m |-> min_cochanges, cp |-> coupling] \in results
            /\ \A r1 \in results, r2 \in results :
                  /\ r1.m <= r2.m => Triples(r2.cp) \subseteq Triples(r1.cp)
                  /\ (r1.m <= 1 /\ r2.m = 1) => r1.cp = r2.cp
            /\ \A r \in results : \A i \in DOMAIN r.cp : r.cp[i].n >= 1

\* threshold 1 returned three pairs of which threshold 2 keeps one and
\* threshold 3 none
ThresholdMonotoneWitness ==
    /\ pc = "done"
    /\ min_cochanges = 1
    /\ Len(coupling) = 3
    /\ Len(calculate_coupling(commits, 2)) = 1
    /\ calculate_coupling(commits, 3) = <<>>
    /\ calculate_coupling(commits, 0) = coupling

\* the neighbor set of f in an adjacency, empty without the key
ConnsOf(adj, f) == UNION {adj[i].conns : i \in {j \in DOMAIN adj : adj[j].file = f}}

\* the positions of the first 30 pairs of the ranked list
TopPairs == {i \in DOMAIN coupling : i <= 30}

\* C29: the adjacency built for the clusters holds, for each of the first 30
\* ranked pairs (a, b, c), b with c among the neighbors of a and a with c
\* among the neighbors of b, and nothing else: a pair ranked 31st or later adds
\* no neighbor.  With canonically ordered distinct pairs no center is its own
\* neighbor and no file is a neighbor twice.  The emitted clusters are taken
\* from this adjacency.
AdjacencyFromTopPairs ==
    pc = "done" =>
        LET adj == BuildClusters(coupling)
        IN  /\ \A i \in TopPairs :
                  /\ [f |-> coupling[i].f2, n |-> coupling[i].n] \in ConnsOf(adj, coupling[i].f1)
                  /\ [f |-> coupling[i].f1, n |-> coupling[i].n] \in ConnsOf(adj, coupling[i].f2)
            /\ \A k \in DOMAIN adj : \A conn \in adj[k].conns :
                  \E i \in TopPairs :
                      /\ coupling[i].n = conn.n
                      /\ \/ (coupling[i].f1 = adj[k].file /\ coupling[i].f2 = conn.f)
                         \/ (coupling[i].f2 = adj[k].file /\ coupling[i].f1 = conn.f)
            /\ \A k \in DOMAIN adj, l \in DOMAIN adj : adj[k].file = adj[l].file => k = l
            /\ (\A i \in DOMAIN coupling : StrLess(coupling[i].f1, coupling[i].f2)) =>
                  \A k \in DOMAIN adj :
                      /\ \A conn \in adj[k].conns : conn.f # adj[k].file
                      /\ \A c1 \in adj[k].conns, c2 \in adj[k].conns : c1.f = c2.f => c1 = c2
            /\ \A c \in DOMAIN report.clusters :
                  Range(report.clusters[c].neighbors) \subseteq ConnsOf(adj, report.clusters[c].file)

\* the 31st pair of the ranked list joins two files that are centers of the
\* adjacency without being neighbors of each other
ThirtyFirstPairWitness ==
    /\ pc = "done"
    /\ Len(coupling) > 30
    /\ LET adj == BuildClusters(coupling)
       IN  /\ ConnsOf(adj, coupling[31].f1) # {}
           /\ ConnsOf(adj, coupling[31].f2) # {}
           /\ \A conn \in ConnsOf(adj, coupling[31].f1) : conn.f # coupling[31].f2

\* the marker lines that emit a record
EmittingMarkers == {p \in HashedMarkers : \E q \in BlockLines(p) : Qualifies(q)}

\* the files recorded for the marker at p
RecordedFiles(p) ==
    IF p \in EmittingMarkers /\ Cardinality({r \in EmittingMarkers : r <= p}) <= Len(commits)
    THEN commits[Cardinality({r \in EmittingMarkers : r <= p})].files
    ELSE <<>>

\* the line has whitespace behind a whitelisted suffix
TrailingBlank(line) == line # RStrip(line) /\ EndsWithExtension(RStrip(line))

\* C30: a file line of a commit block is recorded if and only if the line as
\* it stands, untrimmed, ends with a whitelisted suffix: a whitelisted path
\* with whitespace behind it is dropped unless it is the last line of the log,
\* and a path with whitespace before it is recorded without the whitespace.
FilterBeforeTrim ==
    Extracted =>
        /\ Len(commits) = Cardinality(EmittingMarkers)
        /\ \A p \in HashedMarkers :
              /\ \A q \in BlockLines(p) :
                    EndsWithExtension(log[q]) => Strip(log[q]) \in Range(RecordedFiles(p))
              /\ Len(RecordedFiles(p)) =
                    Cardinality({q \in BlockLines(p) :
                        \/ EndsWithExtension(log[q])
                        \/ (TrailingBlank(log[q]) /\ LastContentLine(q))})
              /\ \A i \in DOMAIN RecordedFiles(p) :
                    Strip(RecordedFiles(p)[i]) = RecordedFiles(p)[i]

\* in one block the path with a blank behind it is dropped, the path with a
\* blank before it is recorded trimmed, and the last line of the log is
\* recorded though a blank follows its suffix
FilterBeforeTrimWitness ==
    /\ Extracted
    /\ log = <<MarkerLine, TrailingSpaceB, LeadingSpaceA, PaddedC>>
    /\ commits = <<[hash |-> <<"h">>, files |-> <<A, C>>]>>

====
